---------------------------- MODULE Spec2Model ----------------------------
(***************************************************************************)
(* OmniUpdate: the update host (Updates-Server.js) and the update client   *)
(* (Updates-Client.js, TARer.js).                                          *)
(*                                                                         *)
(* Strings are sequences of one-character strings, so that the regular     *)
(* expression test, split, Number, toUpperCase, whitespace removal and     *)
(* path resolution are computed character by character as the code does.   *)
(***************************************************************************)
EXTENDS Integers, Sequences, FiniteSets, TLC

VARIABLES
    listing,        \* host: what readdirSync(BASE_DIR) yields, in the file system's order
    rootReadable,   \* host: whether readdirSync(BASE_DIR) succeeds
    streams,        \* host: the archive downloads under way, by connection
    resp,           \* host: the response of the last request handled
    pc,             \* client: position inside update()
    reqVersion,     \* client: the argument of update()
    scratch,        \* client: downloads/<filename>, the staged archive
    tarPath,        \* client: the file name downloadVersion resolved with
    appDir,         \* client: the application directory
    extractLeft,    \* client: archive entries tar.x has not written yet
    versionFile,    \* client: version.txt
    result,         \* client: what the last update() returned
    before,         \* client: appDir and versionFile as the current update() found
                    \*         them, what the update() before it returned, and
                    \*         whether that one was called with the same argument
    runs,           \* client: how many times update() has been called
    failedAt,       \* client: the step of the current update() that threw, if any
    available,      \* client: what getAvailableVersions() returned to checkForUpdate()
    current,        \* client: what getCurrentVersion() returned to checkForUpdate()
    checkResult,    \* client: what the last checkForUpdate() returned
    asked           \* client: the endpoints the current update() has requested, in order

hostVars == <<listing, rootReadable, resp, streams>>
clientVars == <<pc, reqVersion, scratch, tarPath, appDir, extractLeft, versionFile,
                result, before, runs, failedAt, available, current, checkResult, asked>>
vars == <<listing, rootReadable, resp, streams, pc, reqVersion, scratch, tarPath, appDir,
          extractLeft, versionFile, result, before, runs, failedAt, available, current,
          checkResult, asked>>

(***************************************************************************)
(* Bounds of the model.                                                    *)
(***************************************************************************)
MaxEntries == 3
MaxRuns == 2

\* The downloads the host serves at once.
MaxStreams == 2

\* The chunks of an archive.
MaxChunks == 2

(***************************************************************************)
(* Characters and strings.                                                 *)
(***************************************************************************)
DigitValue ==
    "0" :> 0 @@ "1" :> 1 @@ "2" :> 2 @@ "3" :> 3 @@ "4" :> 4 @@
    "5" :> 5 @@ "6" :> 6 @@ "7" :> 7 @@ "8" :> 8 @@ "9" :> 9

UpperOf ==
    "a" :> "A" @@ "b" :> "B" @@ "c" :> "C" @@ "d" :> "D" @@ "e" :> "E" @@
    "f" :> "F" @@ "g" :> "G" @@ "h" :> "H" @@ "i" :> "I" @@ "j" :> "J" @@
    "k" :> "K" @@ "l" :> "L" @@ "m" :> "M" @@ "n" :> "N" @@ "o" :> "O" @@
    "p" :> "P" @@ "q" :> "Q" @@ "r" :> "R" @@ "s" :> "S" @@ "t" :> "T" @@
    "u" :> "U" @@ "v" :> "V" @@ "w" :> "W" @@ "x" :> "X" @@ "y" :> "Y" @@
    "z" :> "Z"

Whitespace == {" ", "\t", "\n"}

IsDigit(c) == c \in DOMAIN DigitValue

UpperChar(c) == IF c \in DOMAIN UpperOf THEN UpperOf[c] ELSE c

\* String.prototype.toUpperCase
toUpperCase(s) == [i \in 1..Len(s) |-> UpperChar(s[i])]

\* version.replace(/\s/g, '')
StripWhitespace(s) == SelectSeq(s, LAMBDA c : c \notin Whitespace)

\* String.prototype.startsWith
startsWith(s, prefix) ==
    /\ Len(prefix) <= Len(s)
    /\ SubSeq(s, 1, Len(prefix)) = prefix

\* String.prototype.split(sep) for a one-character separator
RECURSIVE SplitFrom(_, _, _, _)
SplitFrom(s, sep, i, cur) ==
    IF i > Len(s) THEN <<cur>>
    ELSE IF s[i] = sep THEN <<cur>> \o SplitFrom(s, sep, i + 1, <<>>)
    ELSE SplitFrom(s, sep, i + 1, Append(cur, s[i]))

split(s, sep) == SplitFrom(s, sep, 1, <<>>)

\* Number(part) for a string of decimal digits; Number("") is 0
RECURSIVE NumberFrom(_, _, _)
NumberFrom(s, i, acc) ==
    IF i > Len(s) THEN acc
    ELSE NumberFrom(s, i + 1, acc * 10 + DigitValue[s[i]])

Number(s) == NumberFrom(s, 1, 0)

Max(a, b) == IF a >= b THEN a ELSE b


(***************************************************************************)
(* Host: the version catalog (Updates-Server.js, get_versions).            *)
(***************************************************************************)

\* A directory entry as readdirSync(..., {withFileTypes: true}) reports it.
Entry(name, isDir) == [name |-> name, isDir |-> isDir]

\* /^\d+(\.\d+)*$/.test(version), scanned left to right: st is "start" where a
\* digit must come (the beginning, or just after a dot) and "digits" inside a
\* run of digits, the only state the end of the string is accepted in.
RECURSIVE RegexFrom(_, _, _)
RegexFrom(s, i, st) ==
    IF i > Len(s) THEN st = "digits"
    ELSE IF IsDigit(s[i]) THEN RegexFrom(s, i + 1, "digits")
    ELSE IF s[i] = "." /\ st = "digits" THEN RegexFrom(s, i + 1, "start")
    ELSE FALSE

VersionRegexTest(s) == RegexFrom(s, 1, "start")

\* partsA[i] || 0 (i counted from 1 here)
PartOrZero(parts, i) == IF i <= Len(parts) THEN Number(parts[i]) ELSE 0

\* The comparator handed to Array.prototype.sort: negative when a sorts first.
RECURSIVE CompareFrom(_, _, _, _)
CompareFrom(partsA, partsB, i, maxLength) ==
    IF i > maxLength THEN 0
    ELSE LET numA == PartOrZero(partsA, i)
             numB == PartOrZero(partsB, i)
         IN  IF numA # numB THEN numB - numA
             ELSE CompareFrom(partsA, partsB, i + 1, maxLength)

CompareAscending(a, b) ==
    LET partsA == split(a, ".")
        partsB == split(b, ".")
    IN  CompareFrom(partsB, partsA, 1, Max(Len(partsA), Len(partsB)))

CompareVersions(a, b) ==
    LET partsA == split(a, ".")
        partsB == split(b, ".")
    IN  CompareFrom(partsA, partsB, 1, Max(Len(partsA), Len(partsB)))

\* Array.prototype.sort is stable: an element is placed after every element
\* already placed that does not sort after it.
RECURSIVE InsertFrom(_, _, _)
InsertFrom(sorted, x, i) ==
    IF i > Len(sorted) THEN Append(sorted, x)
    ELSE IF CompareVersions(sorted[i], x) > 0
         THEN SubSeq(sorted, 1, i - 1) \o <<x>> \o SubSeq(sorted, i, Len(sorted))
         ELSE InsertFrom(sorted, x, i + 1)

RECURSIVE SortFrom(_, _, _)
SortFrom(xs, i, sorted) ==
    IF i > Len(xs) THEN sorted
    ELSE SortFrom(xs, i + 1, InsertFrom(sorted, xs[i], 1))

SortVersions(xs) == SortFrom(xs, 1, <<>>)

\* getFolders(dirPath): a readdirSync that throws is caught and yields [].
FoldersOfEveryEntry(readable, lst) ==
    IF ~readable THEN <<>>
    ELSE [i \in 1..Len(lst) |-> lst[i].name]

getFolders(readable, lst) ==
    IF ~readable THEN <<>>
    ELSE LET dirs == SelectSeq(lst, LAMBDA item : item.isDir)
         IN  [i \in 1..Len(dirs) |-> dirs[i].name]

\* sortVersionsDescending(versions); versions is always an array here.
sortVersionsDescending(versions) ==
    [Status |-> TRUE,
     versions |-> SortVersions(SelectSeq(versions, VersionRegexTest)),
     error |-> "none"]

\* get_versions(): nothing it calls throws, getFolders having caught.
get_versions(readable, lst) == sortVersionsDescending(getFolders(readable, lst))

(***************************************************************************)
(* Host: paths (path.join, path.resolve) and the file system around the    *)
(* package root.                                                           *)
(***************************************************************************)

\* BASE_DIR = path.join(__dirname, '..', 'app'), here "/srv/app".
BASE_DIR == <<"/", "s", "r", "v", "/", "a", "p", "p">>

\* Directories that exist outside the package root: "/", "/srv", "/srv/app2".
OutsideDirs ==
    { <<"/">>,
      <<"/", "s", "r", "v">>,
      <<"/", "s", "r", "v", "/", "a", "p", "p", "2">> }

\* Normalisation of an absolute path: empty and "." segments are dropped and
\* ".." removes the segment before it.
RECURSIVE NormalizeFrom(_, _, _)
NormalizeFrom(segs, i, kept) ==
    IF i > Len(segs) THEN kept
    ELSE IF segs[i] = <<>> \/ segs[i] = <<".">> THEN NormalizeFrom(segs, i + 1, kept)
    ELSE IF segs[i] = <<".", ".">>
         THEN NormalizeFrom(segs, i + 1,
                            IF kept = <<>> THEN kept ELSE SubSeq(kept, 1, Len(kept) - 1))
         ELSE NormalizeFrom(segs, i + 1, Append(kept, segs[i]))

RECURSIVE JoinSegments(_, _)
JoinSegments(segs, i) ==
    IF i > Len(segs) THEN <<>>
    ELSE <<"/">> \o segs[i] \o JoinSegments(segs, i + 1)

NormalizePath(p) ==
    LET kept == NormalizeFrom(split(p, "/"), 1, <<>>)
    IN  IF kept = <<>> THEN <<"/">> ELSE JoinSegments(kept, 1)

\* path.resolve(path.join(BASE_DIR, version))
ResolvePath(version) == NormalizePath(BASE_DIR \o <<"/">> \o version)

\* The path of the immediate child `name` of the package root.
ChildPath(name) == BASE_DIR \o <<"/">> \o name

\* fs.existsSync(p) && fs.statSync(p).isDirectory(), `gone` being the path of a
\* directory removed since the root was listed (<<>> when none was).
IsExistingDir(p, lst, gone) ==
    /\ p # gone
    /\ \/ p = BASE_DIR
       \/ p \in OutsideDirs
       \/ \E i \in 1..Len(lst) : lst[i].isDir /\ p = ChildPath(lst[i].name)

(***************************************************************************)
(* TARer.js: createTarStream(folderPath).  The checks throw inside the try *)
(* and the catch returns a Readable that ends at once: its `error` is a    *)
(* plain property, no 'error' event is emitted.                            *)
(***************************************************************************)
NoStream == [kind |-> "none", dir |-> <<>>]

createTarStream(folderPath, lst, gone) ==
    IF IsExistingDir(folderPath, lst, gone)
    THEN [kind |-> "tar", dir |-> folderPath]
    ELSE [kind |-> "empty", dir |-> <<>>]

(***************************************************************************)
(* Host: GET /versions and GET /updates.                                   *)
(***************************************************************************)
LATEST == <<"L", "A", "T", "E", "S", "T">>

NoRequest == [given |-> FALSE, text |-> <<>>]

Request(text) == [given |-> TRUE, text |-> text]

NoLatest == [some |-> FALSE, v |-> <<>>]

Response(endpoint, request, race, status, error, catalog, latest, version, stream) ==
    [endpoint |-> endpoint, request |-> request, race |-> race, status |-> status,
     error |-> error, catalog |-> catalog, latest |-> latest, version |-> version,
     stream |-> stream]

NoResponse ==
    Response("none", NoRequest, "none", 0, "none", <<>>, NoLatest, <<>>, NoStream)

\* app.get('/versions'): the body is {versions, latest}, latest being null for
\* an empty catalog.
VersionsResponse(readable, lst) ==
    LET V_Found == get_versions(readable, lst)
    IN  IF ~V_Found.Status
        THEN Response("versions", NoRequest, "none", 500, "CatalogError", <<>>,
                      NoLatest, <<>>, NoStream)
        ELSE Response("versions", NoRequest, "none", 200, "none", V_Found.versions,
                      IF Len(V_Found.versions) > 0
                      THEN [some |-> TRUE, v |-> V_Found.versions[1]]
                      ELSE NoLatest,
                      <<>>, NoStream)

\* versions.find(v => v.toUpperCase() === cleanVersion.toUpperCase()): the
\* index of the first such entry, 0 when there is none.
FindPrefixOf(versions, cleanVersion) ==
    IF \E i \in 1..Len(versions) :
           startsWith(toUpperCase(versions[i]), toUpperCase(cleanVersion))
    THEN CHOOSE i \in 1..Len(versions) :
           /\ startsWith(toUpperCase(versions[i]), toUpperCase(cleanVersion))
           /\ \A j \in 1..(i - 1) :
                  ~startsWith(toUpperCase(versions[j]), toUpperCase(cleanVersion))
    ELSE 0

FindVersion(versions, cleanVersion) ==
    IF \E i \in 1..Len(versions) : toUpperCase(versions[i]) = toUpperCase(cleanVersion)
    THEN CHOOSE i \in 1..Len(versions) :
           /\ toUpperCase(versions[i]) = toUpperCase(cleanVersion)
           /\ \A j \in 1..(i - 1) : toUpperCase(versions[j]) # toUpperCase(cleanVersion)
    ELSE 0

\* Lines 104-119: what the request resolves to, `found` telling whether it
\* resolves to anything.
Resolved(v) == [found |-> TRUE, v |-> v]

NotResolved == [found |-> FALSE, v |-> <<>>]

ResolveLatestToLast(version, versions) ==
    IF toUpperCase(version) = LATEST THEN Resolved(versions[Len(versions)])
    ELSE LET idx == FindVersion(versions, StripWhitespace(version))
         IN  IF idx = 0 THEN NotResolved ELSE Resolved(versions[idx])

ResolveByPrefix(version, versions) ==
    IF toUpperCase(version) = LATEST THEN Resolved(versions[1])
    ELSE LET idx == FindPrefixOf(versions, StripWhitespace(version))
         IN  IF idx = 0 THEN NotResolved ELSE Resolved(versions[idx])

ResolveUnchecked(version, versions) ==
    IF toUpperCase(version) = LATEST THEN Resolved(versions[1])
    ELSE Resolved(StripWhitespace(version))

ResolveVersion(version, versions) ==
    IF toUpperCase(version) = LATEST THEN Resolved(versions[1])
    ELSE LET idx == FindVersion(versions, StripWhitespace(version))
         IN  IF idx = 0 THEN NotResolved ELSE Resolved(versions[idx])

\* app.get('/updates'), V_Found being what get_versions() returned.  `race` tells whether the resolved directory is
\* removed by another process while the request is handled: "none",
\* "beforeExists" (after the root was listed, before existsSync) or
\* "beforePack" (after existsSync, before createTarStream looks again).
UpdatesResponse(req, V_Found, lst, race) ==
    LET version == IF ~req.given \/ req.text = <<>> THEN LATEST ELSE req.text
        versions == V_Found.versions
        Fail(status, error) ==
            Response("updates", req, race, status, error, versions, NoLatest, <<>>,
                     NoStream)
    IN  IF ~V_Found.Status THEN Fail(403, "CatalogError")
        ELSE IF Len(versions) = 0 THEN Fail(404, "NoReleases")
        ELSE LET res == ResolveVersion(version, versions)
             IN  IF ~res.found THEN Fail(404, "VersionNotFound")
                 ELSE LET found == res.v
                          resolvedPath == ResolvePath(found)
                      IN  IF ~startsWith(resolvedPath, BASE_DIR)
                          THEN Fail(403, "InvalidVersionPath")
                          ELSE IF ~IsExistingDir(resolvedPath, lst,
                                      IF race = "beforeExists" THEN resolvedPath ELSE <<>>)
                          THEN Response("updates", req, race, 404, "FolderNotFound",
                                        versions, NoLatest, found, NoStream)
                          ELSE Response("updates", req, race, 200, "none", versions,
                                        NoLatest, found,
                                        createTarStream(resolvedPath, lst,
                                            IF race = "beforePack" THEN resolvedPath
                                            ELSE <<>>))

(***************************************************************************)
(* Packages, archives and the client's files.                              *)
(***************************************************************************)

\* A file or directory, by its path (a sequence of segments) under the
\* directory that holds it; `data` stands for a file's bytes.
Node(path, kind, data) == [path |-> path, kind |-> kind, data |-> data]

\* What the host keeps under app/<version>: the files carry the version in
\* their bytes, and 10.0.0 has a file the other versions do not have.
PackageTree(version) ==
    { Node(<<"main.js">>, "File", version),
      Node(<<"lib">>, "Directory", <<>>),
      Node(<<"lib", "core.js">>, "File", version) }
    \cup (IF version = <<"1", "0", ".", "0", ".", "0">>
          THEN {Node(<<"legacy.js">>, "File", version)}
          ELSE {})

\* tar.create({gzip: true, cwd: path.dirname(folderPath)}, [path.basename(folderPath)])
\* archives the directory under its own name: one top-level entry, the
\* basename, and every descendant below it.
Basename(p) == LET segs == split(p, "/") IN segs[Len(segs)]

TarEntries(stream) ==
    IF stream.kind # "tar" THEN {}
    ELSE LET top == Basename(stream.dir)
         IN  {Node(<<top>>, "Directory", <<>>)}
               \cup {Node(<<top>> \o n.path, n.kind, n.data) : n \in PackageTree(top)}

\* A variant for comparison: tar.x without strip.
ExtractedNodesUnstripped(entry) == {entry}

\* tar.x({strip: 1}): the first path component of an entry is dropped; an
\* entry left with no path is the target directory itself.
ExtractedNodes(entry) ==
    IF Len(entry.path) <= 1 THEN {}
    ELSE {Node(SubSeq(entry.path, 2, Len(entry.path)), entry.kind, entry.data)}

NoDir == [exists |-> FALSE, nodes |-> {}]

Dir(nodes) == [exists |-> TRUE, nodes |-> nodes]

NoFile == [exists |-> FALSE, text |-> <<>>]

File(text) == [exists |-> TRUE, text |-> text]

NoArchive == [present |-> FALSE, name |-> <<>>, entries |-> {}, complete |-> FALSE]

TarGz == <<".", "t", "a", "r", ".", "g", "z">>

\* filename.replace('.tar.gz', ''): the first occurrence is removed.
RECURSIVE RemoveFirstFrom(_, _, _)
RemoveFirstFrom(s, sub, i) ==
    IF i + Len(sub) - 1 > Len(s) THEN s
    ELSE IF SubSeq(s, i, i + Len(sub) - 1) = sub
         THEN SubSeq(s, 1, i - 1) \o SubSeq(s, i + Len(sub), Len(s))
         ELSE RemoveFirstFrom(s, sub, i + 1)

RemoveFirst(s, sub) == RemoveFirstFrom(s, sub, 1)

(***************************************************************************)
(* The names and requests the model draws from.                            *)
(***************************************************************************)
v1_0 == <<"1", ".", "0">>
v1_0_0 == <<"1", ".", "0", ".", "0">>
v2_1_0 == <<"2", ".", "1", ".", "0">>
v10_0_0 == <<"1", "0", ".", "0", ".", "0">>
v3_0_0 == <<"3", ".", "0", ".", "0">>
vPrefixed == <<"v", "1", ".", "0">>
vBeta == <<"2", ".", "2", ".", "0", "-", "b", "e", "t", "a", ".", "1">>

\* What the package root may hold: version directories, directories whose
\* names are not versions, and a plain file with a version's name.
EntryPool ==
    { Entry(v1_0, TRUE), Entry(v1_0_0, TRUE), Entry(v2_1_0, TRUE),
      Entry(v10_0_0, TRUE), Entry(vPrefixed, TRUE), Entry(vBeta, TRUE),
      Entry(v3_0_0, FALSE) }

\* The version parameter of a request: absent, empty, LATEST in three letter
\* cases, names with and without whitespace, prefixes, names that are not in
\* the grammar, and traversal sequences.
RequestPool ==
    { NoRequest,
      Request(<<>>),
      Request(LATEST),
      Request(<<"l", "a", "t", "e", "s", "t">>),
      Request(<<"L", "a", "t", "e", "s", "t">>),
      Request(v1_0),
      Request(v1_0_0),
      Request(<<" ", "1", ".", "0", ".", "0", " ">>),
      Request(<<"1">>),
      Request(<<"2", ".", "1">>),
      Request(v10_0_0),
      Request(v3_0_0),
      Request(vBeta),
      Request(<<"V", "1", ".", "0">>),
      Request(<<".", ".", "/", "a", "p", "p", "2">>),
      Request(<<"1", ".", "0", "/", ".", ".", "/", ".", ".">>) }

Races == {"none", "beforeExists", "beforePack"}

(***************************************************************************)
(* The host and its file system.  The host is stateless per request, so    *)
(* requests are taken one at a time: resp is the response of the request   *)
(* being served, and the package root changes between requests or, within  *)
(* GET /updates, as the race the request is handled with.                  *)
(***************************************************************************)
Names(lst) == {lst[i].name : i \in 1..Len(lst)}

RemoveAt(lst, i) == SubSeq(lst, 1, i - 1) \o SubSeq(lst, i + 1, Len(lst))

RemovePath(lst, p) == SelectSeq(lst, LAMBDA e : ChildPath(e.name) # p)

\* An entry appears in the package root.
AddEntry(e) ==
    /\ resp = NoResponse
    /\ Len(listing) < MaxEntries
    /\ e.name \notin Names(listing)
    /\ listing' = Append(listing, e)
    /\ UNCHANGED <<rootReadable, resp, streams, clientVars>>

\* An entry of the package root is removed.
RemoveEntry(i) ==
    /\ resp = NoResponse
    /\ i \in 1..Len(listing)
    /\ listing' = RemoveAt(listing, i)
    /\ UNCHANGED <<rootReadable, resp, streams, clientVars>>

\* The package root becomes unreadable (removed, or its permissions changed),
\* or readable again.
ToggleRoot ==
    /\ resp = NoResponse
    /\ rootReadable' = ~rootReadable
    /\ UNCHANGED <<listing, resp, streams, clientVars>>

\* GET /versions
GetVersions ==
    /\ resp = NoResponse
    /\ resp' = VersionsResponse(rootReadable, listing)
    /\ UNCHANGED <<listing, rootReadable, streams, clientVars>>

\* GET /updates?version=...; a race removes the directory the request
\* resolved to, so it is only possible in a request that resolved to one.
GetUpdates(req) ==
    LET V_Found == get_versions(rootReadable, listing)
        quiet == UpdatesResponse(req, V_Found, listing, "none")
    IN  /\ resp = NoResponse
        /\ \E race \in (IF quiet.status = 200 THEN Races ELSE {"none"}) :
               LET r == IF race = "none" THEN quiet
                        ELSE UpdatesResponse(req, V_Found, listing, race)
               IN  /\ resp' = r
                   /\ listing' = IF race = "none" THEN listing
                                 ELSE RemovePath(listing, ResolvePath(r.version))
                   /\ UNCHANGED <<rootReadable, streams, clientVars>>

\* The response has been delivered and the request is over.
Finish ==
    /\ resp # NoResponse
    /\ resp' = NoResponse
    /\ UNCHANGED <<listing, rootReadable, streams, clientVars>>

\* One connection's download as the /updates handler leaves it: the stream
\* createTarStream returned, how it has fared, the chunks read from it and
\* piped so far, and the state of the response.
NoDownload == [source |-> NoStream, tar |-> "none", read |-> 0, response |-> "none"]

NoStreams == [s \in 1..MaxStreams |-> NoDownload]

\* The client before any update(): nothing downloaded, `app` installed and
\* `record` in version.txt.
ClientIdle(app, record) ==
    /\ pc = "idle"
    /\ reqVersion = <<>>
    /\ scratch = NoArchive
    /\ tarPath = <<>>
    /\ appDir = app
    /\ extractLeft = {}
    /\ versionFile = record
    /\ result = "none"
    /\ before = [app |-> app, record |-> record, sameRequest |-> FALSE,
                 result |-> "none", failedAt |-> "none"]
    /\ runs = 0
    /\ failedAt = "none"
    /\ available = <<>>
    /\ current = [some |-> FALSE, v |-> <<>>]
    /\ checkResult = "none"
    /\ asked = <<>>

Init ==
    /\ listing = <<>>
    /\ rootReadable = TRUE
    /\ resp = NoResponse
    /\ streams = NoStreams
    /\ ClientIdle(NoDir, NoFile)

Next ==
    \/ \E e \in EntryPool : AddEntry(e)
    \/ \E i \in 1..MaxEntries : RemoveEntry(i)
    \/ ToggleRoot
    \/ GetVersions
    \/ \E req \in RequestPool : GetUpdates(req)
    \/ Finish

Spec == Init /\ [][Next]_vars

(***************************************************************************)
(* The client: UpdateClient.update(version), a step per statement that     *)
(* touches the disk or the network.  The process may be killed between     *)
(* any two of them.                                                        *)
(***************************************************************************)

\* What update() is called with.
ClientRequests ==
    { LATEST, <<"l", "a", "t", "e", "s", "t">>, v1_0_0, v2_1_0, <<" ">> \o v2_1_0, vBeta }

\* The package roots the client's host may serve from.
ClientHostListings ==
    { <<>>, <<Entry(v1_0_0, TRUE), Entry(v2_1_0, TRUE), Entry(vBeta, TRUE)>> }

\* The catch of update(): the error thrown by `step` is logged and false
\* returned.
ReturnFalse(step) ==
    /\ pc' = "idle"
    /\ result' = "false"
    /\ failedAt' = step

\* A variant for comparison: an update() that returns true at once when the
\* record already names the version asked for.
BeginUpdateUnlessInstalled(version) ==
    /\ pc = "idle"
    /\ runs < MaxRuns
    /\ runs' = runs + 1
    /\ reqVersion' = version
    /\ before' = [app |-> appDir, record |-> versionFile,
                  sameRequest |-> (runs > 0 /\ reqVersion = version),
                  result |-> result, failedAt |-> failedAt]
    /\ result' = IF versionFile = File(version) THEN "true" ELSE "none"
    /\ failedAt' = "none"
    /\ available' = <<>>
    /\ current' = [some |-> FALSE, v |-> <<>>]
    /\ checkResult' = "none"
    /\ asked' = <<>>
    /\ pc' = IF versionFile = File(version) THEN "idle" ELSE "download"
    /\ UNCHANGED <<hostVars, scratch, tarPath, appDir, extractLeft, versionFile>>

\* update(version) is called.
BeginUpdate(version) ==
    /\ pc = "idle"
    /\ runs < MaxRuns
    /\ runs' = runs + 1
    /\ reqVersion' = version
    /\ before' = [app |-> appDir, record |-> versionFile,
                  sameRequest |-> (runs > 0 /\ reqVersion = version),
                  result |-> result, failedAt |-> failedAt]
    /\ result' = "none"
    /\ failedAt' = "none"
    /\ available' = <<>>
    /\ current' = [some |-> FALSE, v |-> <<>>]
    /\ checkResult' = "none"
    /\ asked' = <<>>
    /\ pc' = "download"
    /\ UNCHANGED <<hostVars, scratch, tarPath, appDir, extractLeft, versionFile>>

\* downloadVersion, lines 83-109: the request is sent; axios throws when the
\* host cannot be reached or answers outside 2xx; otherwise the file named by
\* Content-Disposition is opened for writing (and emptied).
DownloadOpen(reachable) ==
    /\ pc = "download"
    /\ asked' = Append(asked, "updates")
    /\ LET r == UpdatesResponse(Request(reqVersion), get_versions(rootReadable, listing),
                                listing, "none")
       IN  IF ~reachable \/ r.status # 200
           THEN /\ ReturnFalse("download")
                /\ UNCHANGED <<scratch, tarPath>>
           ELSE /\ scratch' = [present |-> TRUE, name |-> r.version \o TarGz,
                               entries |-> TarEntries(r.stream), complete |-> FALSE]
                /\ tarPath' = r.version \o TarGz
                /\ pc' = "receive"
                /\ UNCHANGED <<result, failedAt>>
    /\ UNCHANGED <<hostVars, reqVersion, appDir, extractLeft, versionFile, before, runs,
                   available, current, checkResult>>

\* The body has been piped into the file and the writer emits 'finish'.
DownloadFinish ==
    /\ pc = "receive"
    /\ scratch' = [scratch EXCEPT !.complete = TRUE]
    /\ pc' = "remove"
    /\ UNCHANGED <<hostVars, reqVersion, tarPath, appDir, extractLeft, versionFile,
                   result, before, runs, failedAt, available, current, checkResult, asked>>

\* The writer emits 'error' (the disk is full, say): the promise is rejected.
DownloadWriteError ==
    /\ pc = "receive"
    /\ ReturnFalse("download")
    /\ UNCHANGED <<hostVars, reqVersion, scratch, tarPath, appDir, extractLeft,
                   versionFile, before, runs, available, current, checkResult, asked>>

\* A variant for comparison: a fault of the response stream that ends the writer as the
\* end of the response does, the short file passing for the archive.
DownloadFaultEndsWriter ==
    /\ pc = "receive"
    /\ pc' = "remove"
    /\ UNCHANGED <<hostVars, reqVersion, scratch, tarPath, appDir, extractLeft,
                   versionFile, result, before, runs, failedAt, available, current, checkResult, asked>>

\* The response stream faults or stalls before its end (the connection is
\* reset, or the host never ends the response).  pipe() forwards no error
\* of its source and no 'error' listener is on response.data: the writer
\* neither finishes nor errors, and the promise of lines 111-114 never settles.
DownloadFault ==
    /\ pc = "receive"
    /\ pc' = "hung"
    /\ UNCHANGED <<hostVars, reqVersion, scratch, tarPath, appDir, extractLeft,
                   versionFile, result, before, runs, failedAt, available, current, checkResult, asked>>

\* A variant for comparison: an extractTar that extracts over what is there.
RemoveAppSkipped ==
    /\ pc = "remove"
    /\ pc' = "mkdir"
    /\ UNCHANGED <<hostVars, reqVersion, scratch, tarPath, appDir, extractLeft,
                   versionFile, result, before, runs, failedAt, available, current,
                   checkResult, asked>>

\* extractTar, lines 130-132: fs.rmSync(appPath, {recursive, force}).
RemoveApp ==
    /\ pc = "remove"
    /\ appDir' = NoDir
    /\ pc' = "mkdir"
    /\ UNCHANGED <<hostVars, reqVersion, scratch, tarPath, extractLeft, versionFile,
                   result, before, runs, failedAt, available, current, checkResult, asked>>

\* extractTar, line 135: fs.mkdirSync(appPath, {recursive: true}), which
\* leaves a directory that exists as it is; tar.x then starts on the file,
\* with the entries strip leaves a path to write.
MakeApp ==
    /\ pc = "mkdir"
    /\ appDir' = IF appDir.exists THEN appDir ELSE Dir({})
    /\ extractLeft' = {e \in scratch.entries : ExtractedNodes(e) # {}}
    /\ pc' = "extract"
    /\ UNCHANGED <<hostVars, reqVersion, scratch, tarPath, versionFile, result, before,
                   runs, failedAt, available, current, checkResult, asked>>

\* Writing `nodes` into a directory: what was at their paths is replaced.
WriteNodes(dir, nodes) ==
    Dir({n \in dir.nodes : \A w \in nodes : w.path # n.path} \cup nodes)

\* tar.x writes one more entry of the archive.
ExtractEntry(entry) ==
    /\ pc = "extract"
    /\ entry \in extractLeft
    /\ appDir' = WriteNodes(appDir, ExtractedNodes(entry))
    /\ extractLeft' = extractLeft \ {entry}
    /\ UNCHANGED <<hostVars, pc, reqVersion, scratch, tarPath, versionFile, result,
                   before, runs, failedAt, available, current, checkResult, asked>>

\* A variant for comparison: update() going on to recordVersion without awaiting tar.x.
ExtractNotAwaited ==
    /\ pc = "extract"
    /\ pc' = "record"
    /\ UNCHANGED <<hostVars, reqVersion, scratch, tarPath, appDir, extractLeft,
                   versionFile, result, before, runs, failedAt, available, current, checkResult, asked>>

\* tar.x resolves, every entry written.
ExtractDone ==
    /\ pc = "extract"
    /\ extractLeft = {}
    /\ pc' = "record"
    /\ UNCHANGED <<hostVars, reqVersion, scratch, tarPath, appDir, extractLeft,
                   versionFile, result, before, runs, failedAt, available, current, checkResult, asked>>

\* tar.x rejects (an entry cannot be written): extractTar rethrows.
ExtractError ==
    /\ pc = "extract"
    /\ extractLeft # {}
    /\ extractLeft' = {}
    /\ ReturnFalse("extract")
    /\ UNCHANGED <<hostVars, reqVersion, scratch, tarPath, appDir, versionFile, before,
                   runs, available, current, checkResult, asked>>

\* update, lines 184-189: the version to record.
ActualVersion(version, path) ==
    IF version = LATEST THEN RemoveFirst(path, TarGz) ELSE version

\* fs.writeFileSync(versionFile, version) opens the file with flag 'w', which
\* creates or empties it, writes, and closes.  It throws either at the open,
\* the file untouched, or at the write (the disk is full), the file left
\* empty.
WriteOutcomes == {"written", "openFailed", "writeFailed"}

\* A variant for comparison: a recordVersion that throws only after the new version is
\* in the file.
RecordVersionThenThrow(outcome) ==
    /\ pc = "record"
    /\ versionFile' = File(ActualVersion(reqVersion, tarPath))
    /\ IF outcome = "written"
       THEN /\ pc' = "unlink"
            /\ UNCHANGED <<result, failedAt>>
       ELSE ReturnFalse("record")
    /\ UNCHANGED <<hostVars, reqVersion, scratch, tarPath, appDir, extractLeft, before,
                   runs, available, current, checkResult, asked>>

\* A variant for comparison: a recordVersion that opens the file with flag 'a'.
RecordVersionAppends(outcome) ==
    /\ pc = "record"
    /\ IF outcome = "written"
       THEN /\ versionFile' = File(versionFile.text \o ActualVersion(reqVersion, tarPath))
            /\ pc' = "unlink"
            /\ UNCHANGED <<result, failedAt>>
       ELSE /\ ReturnFalse("record")
            /\ UNCHANGED versionFile
    /\ UNCHANGED <<hostVars, reqVersion, scratch, tarPath, appDir, extractLeft, before,
                   runs, available, current, checkResult, asked>>

\* recordVersion, called at line 192.
RecordVersion(outcome) ==
    /\ pc = "record"
    /\ IF outcome = "written"
       THEN /\ versionFile' = File(ActualVersion(reqVersion, tarPath))
            /\ pc' = "unlink"
            /\ UNCHANGED <<result, failedAt>>
       ELSE /\ ReturnFalse("record")
            /\ versionFile' = IF outcome = "openFailed" THEN versionFile ELSE File(<<>>)
    /\ UNCHANGED <<hostVars, reqVersion, scratch, tarPath, appDir, extractLeft, before,
                   runs, available, current, checkResult, asked>>

\* A variant for comparison: an update() that returns true with the archive
\* left in downloads/.
UnlinkSkipped(removed) ==
    /\ pc = "unlink"
    /\ pc' = "idle"
    /\ result' = "true"
    /\ UNCHANGED <<hostVars, reqVersion, scratch, tarPath, appDir, extractLeft,
                   versionFile, before, runs, failedAt, available, current,
                   checkResult, asked>>

\* update, lines 195-198: fs.unlinkSync(tarPath), which may throw, then true
\* is returned.
UnlinkArchive(removed) ==
    /\ pc = "unlink"
    /\ IF removed
       THEN /\ scratch' = NoArchive
            /\ pc' = "idle"
            /\ result' = "true"
            /\ UNCHANGED failedAt
       ELSE /\ ReturnFalse("unlink")
            /\ UNCHANGED scratch
    /\ UNCHANGED <<hostVars, reqVersion, tarPath, appDir, extractLeft, versionFile,
                   before, runs, available, current, checkResult, asked>>

\* The client process is killed (or the machine loses power) inside update().
Crash ==
    /\ pc \notin {"idle", "crashed"}
    /\ pc' = "crashed"
    /\ UNCHANGED <<hostVars, reqVersion, scratch, tarPath, appDir, extractLeft,
                   versionFile, result, before, runs, failedAt, available, current, checkResult, asked>>

\* The client starts with nothing installed, or with 1.0.0 installed and
\* recorded; its host serves one of ClientHostListings.
\* String.prototype.trim
RECURSIVE TrimStart(_)
TrimStart(s) ==
    IF s # <<>> /\ Head(s) \in Whitespace THEN TrimStart(Tail(s)) ELSE s

RECURSIVE TrimEnd(_)
TrimEnd(s) ==
    IF s # <<>> /\ s[Len(s)] \in Whitespace
    THEN TrimEnd(SubSeq(s, 1, Len(s) - 1))
    ELSE s

Trim(s) == TrimEnd(TrimStart(s))

\* null, and a version string, as getCurrentVersion returns them
NoVersion == [some |-> FALSE, v |-> <<>>]

\* getCurrentVersion: the trimmed text of version.txt; null when the file is
\* absent or cannot be read.
getCurrentVersion(file, readOk) ==
    IF file.exists /\ readOk
    THEN [some |-> TRUE, v |-> Trim(file.text)]
    ELSE NoVersion

\* GET /health: versions is get_versions().versions || []
HealthVersions(readable, lst) ==
    LET V_Found == get_versions(readable, lst)
    IN  IF V_Found.Status THEN V_Found.versions ELSE <<>>

\* getAvailableVersions: the versions of GET /versions; when that request
\* fails (host unreachable, or a status outside 2xx), those of GET /health;
\* [] when both fail.
getAvailableVersions(versionsReachable, healthReachable, readable, lst) ==
    LET r == VersionsResponse(readable, lst)
    IN  IF versionsReachable /\ r.status = 200
        THEN r.catalog
        ELSE IF healthReachable
             THEN HealthVersions(readable, lst)
             ELSE <<>>

\* A variant for comparison: the comparison without the test of the length.
UpdateOfferedUnlessEqual(availableVersions, currentVersion) ==
    ~ (/\ currentVersion.some
       /\ Len(availableVersions) > 0
       /\ availableVersions[1] = currentVersion.v)

\* availableVersions.length > 0 && availableVersions[0] !== currentVersion
UpdateOffered(availableVersions, currentVersion) ==
    /\ Len(availableVersions) > 0
    /\ ~ (currentVersion.some /\ availableVersions[1] = currentVersion.v)

\* checkForUpdate
CheckForUpdate(versionsReachable, healthReachable, readOk) ==
    /\ pc = "idle"
    /\ LET currentVersion == getCurrentVersion(versionFile, readOk)
           availableVersions == getAvailableVersions(versionsReachable, healthReachable,
                                                     rootReadable, listing)
       IN  /\ available' = availableVersions
           /\ current' = currentVersion
           /\ checkResult' = IF UpdateOffered(availableVersions, currentVersion)
                             THEN "true" ELSE "false"
    /\ UNCHANGED <<hostVars, pc, reqVersion, scratch, tarPath, appDir, extractLeft,
                   versionFile, result, before, runs, failedAt, asked>>

\* The application directory after its user has edited main.js and added a
\* file of their own.
Edited(dir) ==
    WriteNodes(dir, { Node(<<"main.js">>, "File", <<"e", "d", "i", "t", "e", "d">>),
                      Node(<<"local.cfg">>, "File", <<"m", "i", "n", "e">>) })

\* What the client starts from: nothing installed, or a package installed
\* and recorded (by this client, or by hand with a final newline), and
\* edited since or not.
InitiallyInstalled ==
    { [app |-> NoDir, record |-> NoFile],
      [app |-> Edited(Dir(PackageTree(v1_0_0))), record |-> File(v1_0_0)],
      [app |-> Dir(PackageTree(v2_1_0)), record |-> File(v2_1_0 \o <<"\n">>)],
      [app |-> Dir(PackageTree(v10_0_0)), record |-> File(v10_0_0)] }

InitClient ==
    /\ listing \in ClientHostListings
    /\ rootReadable = TRUE
    /\ resp = NoResponse
    /\ streams = NoStreams
    /\ \E i \in InitiallyInstalled : ClientIdle(i.app, i.record)

\* The commands of the client, one at a time. A check that follows a check
\* reads the same record and the same host and has the same answers to
\* return, so the check is taken once between two runs.
NextClient ==
    \/ \E version \in ClientRequests : BeginUpdate(version)
    \/ \E reachable \in BOOLEAN : DownloadOpen(reachable)
    \/ DownloadFinish
    \/ DownloadWriteError
    \/ DownloadFault
    \/ RemoveApp
    \/ MakeApp
    \/ \E entry \in extractLeft : ExtractEntry(entry)
    \/ ExtractDone
    \/ ExtractError
    \/ \E outcome \in WriteOutcomes : RecordVersion(outcome)
    \/ \E removed \in BOOLEAN : UnlinkArchive(removed)
    \/ /\ checkResult = "none"
       /\ \E versionsReachable, healthReachable, readOk \in BOOLEAN :
            CheckForUpdate(versionsReachable, healthReachable, readOk)
    \/ Crash

SpecClient == InitClient /\ [][NextClient]_vars

(***************************************************************************)
(* The host while archives are streamed: what follows the return of the    *)
(* /updates handler on each connection, several downloads at once.         *)
(***************************************************************************)

\* The requests of the downloads.
StreamRequests == { Request(LATEST), Request(v1_0_0) }

\* The package root the downloads are served from.
StreamListing == << Entry(v1_0_0, TRUE), Entry(v2_1_0, TRUE) >>

\* GET /updates on connection s, lines 138-165 once the version directory
\* was found: the stream of createTarStream is piped into the response and
\* the handlers of its 'error' and of the request's 'close' are set.
StartDownload(s, req, race) ==
    LET r == UpdatesResponse(req, get_versions(rootReadable, listing), listing, race)
    IN  /\ streams[s] = NoDownload
        /\ r.status = 200
        /\ streams' = [streams EXCEPT ![s] =
                           [source |-> r.stream, tar |-> "flowing", read |-> 0,
                            response |-> "open"]]
        /\ listing' = IF race = "none" THEN listing
                      ELSE RemovePath(listing, ResolvePath(r.version))
        /\ UNCHANGED <<rootReadable, resp, clientVars>>

\* tarStream.pipe(res): a chunk of the archive is read and written to the
\* response (the first one takes the headers with it).
TarData(s) ==
    /\ streams[s].tar = "flowing"
    /\ streams[s].source.kind = "tar"
    /\ streams[s].read < MaxChunks
    /\ streams' = [streams EXCEPT ![s].read = @ + 1]
    /\ UNCHANGED <<listing, rootReadable, resp, clientVars>>

\* The stream ends (the Readable of createTarStream's catch with its first
\* read, a tar stream after its last chunk) and pipe() ends the response.
TarEnd(s) ==
    /\ streams[s].tar = "flowing"
    /\ streams[s].source.kind = "tar" => streams[s].read = MaxChunks
    /\ streams' = [streams EXCEPT ![s].tar = "ended",
                                  ![s].response = IF @ = "open" THEN "ended" ELSE @]
    /\ UNCHANGED <<listing, rootReadable, resp, clientVars>>

\* tarStream.on('error'), lines 143-150: the error is logged, and answered
\* with a 500 only if no header has been sent; pipe() does not end the
\* response for an error of its source.
TarError(s) ==
    /\ streams[s].tar = "flowing"
    /\ streams[s].source.kind = "tar"
    /\ streams' = [streams EXCEPT ![s].tar = "failed",
                                  ![s].response = IF @ = "open" /\ streams[s].read = 0
                                                  THEN "error500" ELSE @]
    /\ UNCHANGED <<listing, rootReadable, resp, clientVars>>

\* A variant for comparison: a 'close' handler that leaves the tar stream alone.
ConnectionCloseUnhandled(s) ==
    /\ streams[s].response = "open"
    /\ streams' = [streams EXCEPT ![s].response = "closed"]
    /\ UNCHANGED <<listing, rootReadable, resp, clientVars>>

\* req.on('close'), lines 161-165: the connection of an unfinished response
\* closes and the handler destroys the tar stream.
ConnectionClose(s) ==
    /\ streams[s].response = "open"
    /\ streams' = [streams EXCEPT ![s].response = "closed",
                                  ![s].tar = IF @ = "flowing" THEN "destroyed" ELSE @]
    /\ UNCHANGED <<listing, rootReadable, resp, clientVars>>

InitStream ==
    /\ listing = StreamListing
    /\ rootReadable = TRUE
    /\ resp = NoResponse
    /\ streams = NoStreams
    /\ ClientIdle(NoDir, NoFile)

NextStream ==
    \/ \E s \in 1..MaxStreams, req \in StreamRequests, race \in {"none", "beforePack"} :
            StartDownload(s, req, race)
    \/ \E s \in 1..MaxStreams : TarData(s)
    \/ \E s \in 1..MaxStreams : TarEnd(s)
    \/ \E s \in 1..MaxStreams : TarError(s)
    \/ \E s \in 1..MaxStreams : ConnectionClose(s)

SpecStream == InitStream /\ [][NextStream]_vars

(***************************************************************************)
(* What the claims speak of, stated apart from the code's own operators.   *)
(***************************************************************************)

\* The digit-dot grammar: one or more components separated by single dots,
\* each a non-empty run of decimal digits.
InGrammar(name) ==
    LET parts == split(name, ".")
    IN  \A k \in 1..Len(parts) :
            /\ parts[k] # <<>>
            /\ \A d \in 1..Len(parts[k]) : parts[k][d] \in DOMAIN DigitValue

\* The k-th component of a name's numeric tuple, a missing one taken as 0.
Component(name, k) ==
    LET parts == split(name, ".")
    IN  IF k <= Len(parts) THEN Number(parts[k]) ELSE 0

Width(a, b) == Max(Len(split(a, ".")), Len(split(b, ".")))

TupleEqual(a, b) == \A k \in 1..Width(a, b) : Component(a, k) = Component(b, k)

TupleGreater(a, b) ==
    \E k \in 1..Width(a, b) :
        /\ Component(a, k) > Component(b, k)
        /\ \A j \in 1..(k - 1) : Component(a, j) = Component(b, j)

\* The subdirectories of the package root whose names are in the grammar.
VersionDirNames == {listing[i].name : i \in {j \in 1..Len(listing) :
                        listing[j].isDir /\ InGrammar(listing[j].name)}}

\* LATEST in any letter case.
IsLatestWord(t) ==
    /\ Len(t) = Len(LATEST)
    /\ \A k \in 1..Len(t) : UpperChar(t[k]) = LATEST[k]

\* a and b are equal but for the case of their letters.
SameIgnoringCase(a, b) ==
    /\ Len(a) = Len(b)
    /\ \A k \in 1..Len(a) : UpperChar(a[k]) = UpperChar(b[k])

\* A name with a pre-release suffix: a version of the grammar, a dash, a tag.
IsPreRelease(name) ==
    \E k \in 2..(Len(name) - 1) :
        /\ name[k] = "-"
        /\ InGrammar(SubSeq(name, 1, k - 1))

\* The text holds the traversal segment "..".
HasTraversal(t) == \E k \in 1..Len(split(t, "/")) : split(t, "/")[k] = <<".", ".">>

VersionsServed == resp.endpoint = "versions" /\ resp.status = 200

UpdatesHandled == resp.endpoint = "updates"

\* The catalog entries of the response, as a set.
CatalogSet == {resp.catalog[i] : i \in 1..Len(resp.catalog)}

(***************************************************************************)
(* C2                                                                      *)
(***************************************************************************)

C4_ThreePartsOnly ==
    /\ VersionsServed =>
           \A i \in 1..Len(resp.catalog) : Len(split(resp.catalog[i], ".")) = 3
    /\ (UpdatesHandled /\ resp.status = 200) => Len(split(resp.version, ".")) = 3

(***************************************************************************)
(* C5                                                                      *)
(***************************************************************************)

\* C5: LATEST never resolves to a pre-release directory, and a request naming
\* a pre-release directory of the package root exactly is served with that
\* directory's archive.
C5_PreReleaseByExactName ==
    UpdatesHandled =>
        /\ (IsLatestWord(resp.request.text) /\ resp.status = 200)
               => ~IsPreRelease(resp.version)
        /\ ( /\ IsPreRelease(resp.request.text)
             /\ rootReadable
             /\ resp.race = "none"
             /\ Entry(resp.request.text, TRUE) \in {listing[i] : i \in 1..Len(listing)} )
               => /\ resp.status = 200
                  /\ resp.stream = [kind |-> "tar", dir |-> ChildPath(resp.request.text)]

(***************************************************************************)
(* C6                                                                      *)
(***************************************************************************)

\* C6: for a non-empty catalog, a request for LATEST in any letter case
\* resolves to the first catalog entry, the one /versions reports as latest,
\* and that entry's package is what is streamed: the response is 200 with that
\* entry's directory as the archive, unless the directory was removed while
\* the request was handled, and then no other package is served in its place.
C6_LatestIsFirst ==
    (UpdatesHandled /\ IsLatestWord(resp.request.text) /\ Len(resp.catalog) > 0) =>
        /\ resp.version = resp.catalog[1]
        /\ resp.status = 200 => resp.stream.kind \in {"tar", "empty"}
        /\ resp.stream.kind = "tar" => resp.stream.dir = ChildPath(resp.catalog[1])
        /\ resp.race = "none" =>
               /\ resp.status = 200
               /\ resp.stream = [kind |-> "tar", dir |-> ChildPath(resp.catalog[1])]
               /\ VersionsResponse(rootReadable, listing).latest
                      = [some |-> TRUE, v |-> resp.version]

\* LATEST in lower case, served from a catalog of three entries whose first is
\* neither the first nor the last of the listing.
C6_Witness ==
    /\ UpdatesHandled
    /\ resp.request = Request(<<"l", "a", "t", "e", "s", "t">>)
    /\ resp.race = "none"
    /\ resp.status = 200
    /\ Len(resp.catalog) = 3
    /\ Len(listing) = 3
    /\ resp.version = listing[2].name

(***************************************************************************)
(* C7                                                                      *)
(***************************************************************************)

\* C7: a request that is not LATEST is served a package only if, its
\* whitespace removed, it equals some catalog entry but for letter case, and
\* the package served is that entry; a prefix of an entry is not served.
C7_ExactMatchOnly ==
    ( /\ UpdatesHandled
      /\ resp.request.given
      /\ resp.request.text # <<>>
      /\ ~IsLatestWord(resp.request.text)
      /\ resp.status = 200 ) =>
        \E i \in 1..Len(resp.catalog) :
            /\ SameIgnoringCase(StripWhitespace(resp.request.text), resp.catalog[i])
            /\ resp.version = resp.catalog[i]
            /\ resp.stream.kind = "tar" => resp.stream.dir = ChildPath(resp.catalog[i])

\* The request " 1.0.0 " served as 1.0.0 from a catalog that also holds 1.0
\* and 10.0.0, of which the request's text is no prefix but "1" is.
C7_Witness ==
    /\ UpdatesHandled
    /\ resp.request = Request(<<" ", "1", ".", "0", ".", "0", " ">>)
    /\ resp.status = 200
    /\ resp.stream = [kind |-> "tar", dir |-> ChildPath(v1_0_0)]
    /\ CatalogSet = {v1_0, v1_0_0, v10_0_0}

(***************************************************************************)
(* C8                                                                      *)
(***************************************************************************)

\* The request names a version (it is not LATEST) that no catalog entry equals.
MatchesNoEntry ==
    /\ resp.request.given
    /\ resp.request.text # <<>>
    /\ ~IsLatestWord(resp.request.text)
    /\ \A i \in 1..Len(resp.catalog) :
           ~SameIgnoringCase(StripWhitespace(resp.request.text), resp.catalog[i])

\* C8: when the catalog is empty, whatever the request, or the requested
\* version matches no catalog entry, /updates responds 404 with an error and
\* creates no archive stream.
C8_NotFound ==
    (UpdatesHandled /\ (Len(resp.catalog) = 0 \/ MatchesNoEntry)) =>
        /\ resp.status = 404
        /\ resp.error \in {"NoReleases", "VersionNotFound"}
        /\ resp.stream = NoStream

\* LATEST asked of a package root that holds entries, none of them a version
\* directory.
C8_Witness ==
    /\ UpdatesHandled
    /\ resp.request = Request(LATEST)
    /\ Len(listing) = 3
    /\ rootReadable
    /\ Len(resp.catalog) = 0
    /\ resp.status = 404

(***************************************************************************)
(* C9                                                                      *)
(***************************************************************************)

\* The directory streamed, if any, is a version directory of the package root.
StreamsInsideRoot ==
    (UpdatesHandled /\ resp.stream.kind = "tar") =>
        \E i \in 1..Len(resp.catalog) : resp.stream.dir = ChildPath(resp.catalog[i])

\* C9 as claimed: a request whose version holds a traversal sequence is
\* rejected with 403 'Invalid version path', and nothing outside the package
\* root is streamed.
C9_TraversalIs403 ==
    /\ (UpdatesHandled /\ HasTraversal(resp.request.text)) =>
           /\ resp.status = 403
           /\ resp.error = "InvalidVersionPath"
    /\ StreamsInsideRoot

\* C9 as amended: a request whose version holds a traversal sequence is
\* rejected with 404 by the catalog lookup (no releases, or version not
\* found), before the path-containment check is reached; no archive stream is
\* created for it, and nothing outside the package root is ever streamed.
C9_TraversalIs404 ==
    /\ (UpdatesHandled /\ HasTraversal(resp.request.text)) =>
           /\ resp.status = 404
           /\ resp.error \in {"NoReleases", "VersionNotFound"}
           /\ resp.stream = NoStream
    /\ StreamsInsideRoot

\* "../app2", which resolves to an existing directory beside the package root
\* whose path begins with BASE_DIR, asked of a non-empty catalog.
C9_Witness ==
    /\ UpdatesHandled
    /\ resp.request = Request(<<".", ".", "/", "a", "p", "p", "2">>)
    /\ ResolvePath(resp.request.text) \in OutsideDirs
    /\ startsWith(ResolvePath(resp.request.text), BASE_DIR)
    /\ Len(resp.catalog) > 0
    /\ resp.error = "VersionNotFound"

(***************************************************************************)
(* C10                                                                     *)
(***************************************************************************)

\* C10: when the package root cannot be read, GET /versions responds 500 with
\* a catalog read error, not 200 with an empty list.
C10_UnreadableRootIs500 ==
    (resp.endpoint = "versions" /\ ~rootReadable) =>
        /\ resp.status = 500
        /\ resp.error = "CatalogError"

(***************************************************************************)
(* C1                                                                      *)
(***************************************************************************)

\* The directory holds one whole package and nothing else.
HoldsWholePackage(dir) ==
    /\ dir.exists
    /\ \E e \in EntryPool : dir.nodes = PackageTree(e.name)

\* C1: at every point of an update() run, a crash at any step included, the
\* application directory holds the whole package that was installed before
\* the run or the whole package the run downloaded; it is never absent, empty
\* or partly populated.
C1_NeverHalfReplaced ==
    HoldsWholePackage(before.app) =>
        \/ appDir = before.app
        \/ appDir = Dir(PackageTree(RemoveFirst(tarPath, TarGz)))

(***************************************************************************)
(* C11                                                                     *)
(***************************************************************************)

\* The package update() downloaded in the current run, as a directory.
NewPackage == Dir(PackageTree(RemoveFirst(tarPath, TarGz)))

\* tar.x resolved in the current run: every entry of the archive is written
\* (the process may have been killed since).
ExtractionCompleted ==
    /\ pc \in {"record", "unlink", "idle", "crashed"}
    /\ failedAt \notin {"download", "extract"}
    /\ extractLeft = {}
    /\ appDir = NewPackage

\* The download of the current run failed: axios or the writer threw, or
\* the response stream faulted.
DownloadFailed == failedAt = "download" \/ pc = "hung"

ExtractionFailed == failedAt = "extract"

\* C11: the record differs from what the run found only once extraction has
\* completed without error in that run; and when the download or the
\* extraction of a run has failed, update() has returned false and the record
\* is the one the run found.
C11_RecordOnlyAfterExtraction ==
    /\ (runs > 0 /\ versionFile # before.record) => ExtractionCompleted
    /\ (DownloadFailed \/ ExtractionFailed) =>
           /\ pc = "idle"
           /\ result = "false"
           /\ versionFile = before.record

(***************************************************************************)
(* C12                                                                     *)
(***************************************************************************)

\* The transfer of the current run has not delivered the whole archive: the
\* request failed, the writer failed, the response stream faulted, or the
\* transfer is still under way.
TransferIncomplete ==
    \/ pc \in {"download", "receive", "hung"}
    \/ failedAt = "download"
    \/ (scratch.present /\ ~scratch.complete)

\* C12: while the archive of a run has not been wholly received, or once its
\* transfer has failed, the application directory is as the run found it; it
\* differs from that only in runs whose archive was wholly written to the
\* downloads directory first.
C12_FailedTransferLeavesApp ==
    /\ TransferIncomplete => appDir = before.app
    /\ (runs > 0 /\ appDir # before.app) =>
           \/ scratch.complete
           \/ (~scratch.present /\ result = "true")

\* An installed application, and a run whose response stream faulted with
\* part of the archive written.
C12_Witness ==
    /\ pc = "hung"
    /\ before.app.exists
    /\ scratch.present
    /\ ~scratch.complete
    /\ appDir = before.app

(***************************************************************************)
(* C13                                                                     *)
(***************************************************************************)

\* A step of the update() under way: what its awaits and calls do next.
RunStep ==
    \/ \E reachable \in BOOLEAN : DownloadOpen(reachable)
    \/ DownloadFinish
    \/ DownloadWriteError
    \/ RemoveApp
    \/ MakeApp
    \/ \E entry \in extractLeft : ExtractEntry(entry)
    \/ ExtractDone
    \/ ExtractError
    \/ \E outcome \in WriteOutcomes : RecordVersion(outcome)
    \/ \E removed \in BOOLEAN : UnlinkArchive(removed)

\* C13: an update() that has not returned (and whose process has not been
\* killed) always has a step left that takes it toward its return; in
\* particular after a fault of the response stream it is not left waiting
\* with nothing to settle the promise it awaits.
C13_RunNeverStuck ==
    pc \notin {"idle", "crashed"} => ENABLED RunStep

(***************************************************************************)
(* C14                                                                     *)
(***************************************************************************)

\* C14: every step that changes the application directory (its removal,
\* its creation, the writing of an entry) is taken with the archive wholly
\* written to the downloads directory, and every step that changes the
\* record is taken with tar.x resolved and every entry written; the steps
\* that write the archive, the directory and the record are steps of three
\* different stages, each entered only when the one before it has ended.
C14_StagesInOrder ==
    [][ /\ (scratch' # scratch) =>
               /\ pc \in {"download", "receive", "unlink"}
               /\ appDir' = appDir
               /\ versionFile' = versionFile
        /\ (appDir' # appDir) =>
               /\ pc \in {"remove", "mkdir", "extract"}
               /\ scratch.present /\ scratch.complete
               /\ versionFile' = versionFile
        /\ (versionFile' # versionFile) =>
               /\ pc = "record"
               /\ scratch.present /\ scratch.complete
               /\ extractLeft = {}
               /\ appDir = NewPackage
      ]_vars

\* The three stages have run one after the other: the archive is whole, the
\* new package is in place, and the record has just been written.
C14_Witness ==
    /\ pc = "unlink"
    /\ scratch.complete
    /\ appDir = NewPackage
    /\ appDir # before.app
    /\ versionFile # before.record

(***************************************************************************)
(* C15                                                                     *)
(***************************************************************************)

\* The identifier of the package the host streamed in the current run: the
\* file name of its Content-Disposition header, less ".tar.gz".
StreamedVersion == RemoveFirst(tarPath, TarGz)

\* C15: update() has returned true only if, in that run, extraction completed
\* without error and the record was then written with the version the run
\* installed.
C15_SuccessMeansCommitted ==
    (pc = "idle" /\ result = "true") =>
        /\ ExtractionCompleted
        /\ versionFile = File(StreamedVersion)

(***************************************************************************)
(* C16                                                                     *)
(***************************************************************************)

\* The identifiers of the catalog the client's host serves.
HostCatalog ==
    LET versions == get_versions(rootReadable, listing).versions
    IN  {versions[i] : i \in 1..Len(versions)}

\* C16: after update(r) has returned true, whatever the accepted request r
\* (an identifier, a variant of it in whitespace, LATEST in any case), the
\* record is exactly the catalog identifier of the package the host streamed.
C16_RecordIsCatalogId ==
    (pc = "idle" /\ result = "true") =>
        /\ versionFile.exists
        /\ versionFile.text = StreamedVersion
        /\ versionFile.text \in HostCatalog

(***************************************************************************)
(* C17                                                                     *)
(***************************************************************************)

\* The catalog of the client's host, in the order it is served.
HostCatalogSeq == get_versions(rootReadable, listing).versions

\* checkForUpdate() has returned, and nothing has run since.
CheckReturned == checkResult # "none"

\* C17 as claimed: checkForUpdate() returns false exactly when the text of
\* the record is the first entry of the catalog obtained, and true in every
\* other case, an empty or unobtainable catalog included.
C17_FalseIffRecordIsFirst ==
    CheckReturned =>
        (checkResult = "false" <=>
            /\ versionFile.exists
            /\ Len(available) > 0
            /\ versionFile.text = available[1])

\* C17: checkForUpdate() returns true exactly when the catalog it obtained
\* (that of /versions, else that of /health, else none) has an entry and
\* its first entry is not the record as getCurrentVersion read it: the text
\* of version.txt less the whitespace at its ends, or nothing when the file
\* is absent or unreadable.  It returns false when the two are the same
\* string and whenever the catalog obtained is empty.
C17_TrueIffFirstDiffers ==
    CheckReturned =>
        /\ available \in {HostCatalogSeq, <<>>}
        /\ current.some => (versionFile.exists /\ current.v = Trim(versionFile.text))
        /\ checkResult = "true" <=>
               /\ Len(available) > 0
               /\ ~ (current.some /\ current.v = available[1])

\* No catalog could be obtained and a record is present: the answer is false
\* although the record equals no first entry.
C17_Witness ==
    /\ checkResult = "false"
    /\ available = <<>>
    /\ HostCatalogSeq # <<>>
    /\ versionFile.exists

(***************************************************************************)
(* C18                                                                     *)
(***************************************************************************)

\* The host offers `version`, and it is newer than what is installed: its
\* numeric tuple is strictly greater than that of the installed version, as
\* getCurrentVersion read it (anything is newer than no installation, and
\* the question does not arise for a record that cannot be read or names no
\* version of the grammar).
OffersNewer(version) ==
    /\ version \in HostCatalog
    /\ \/ ~current.some
       \/ ~InGrammar(current.v)
       \/ TupleGreater(version, current.v)

\* C18: checkForUpdate() returns true only when the host offers a version
\* newer than the installed one.
C18_TrueOnlyWhenNewer ==
    checkResult = "true" => \E version \in HostCatalog : OffersNewer(version)

(***************************************************************************)
(* C19                                                                     *)
(***************************************************************************)

\* recordVersion threw in the current run, after tar.x had resolved.
PersistFailed == failedAt = "record"

StageOf(step) ==
    CASE step = "download" -> "downloading"
      [] step = "extract"  -> "extracting"
      [] step = "record"   -> "committing"
      [] step = "unlink"   -> "committing"
      [] OTHER             -> "none"

\* C20: what update() returns for a failed run identifies the stage that
\* failed: two failed runs that return the same value failed in the same
\* stage, so that a failure to persist the record and a failure of the
\* extraction never return the same.
C20_OutcomeIdentifiesStage ==
    (pc = "idle" /\ result = "false" /\ before.result = result) =>
        StageOf(failedAt) = StageOf(before.failedAt)

(***************************************************************************)
(* C21                                                                     *)
(***************************************************************************)

\* update() has returned true twice in succession for the same request.
SucceededTwice ==
    /\ pc = "idle"
    /\ result = "true"
    /\ before.result = "true"
    /\ before.sameRequest

\* C21: with the host unchanged, when update(v) has succeeded and update(v)
\* is run again and succeeds, the application directory and the record are
\* what they were after the first run.
C21_SecondRunChangesNothing ==
    SucceededTwice =>
        /\ appDir = before.app
        /\ versionFile = before.record

\* A second successful update('LATEST') over an installation the first one
\* changed.
C21_Witness ==
    /\ SucceededTwice
    /\ reqVersion = LATEST
    /\ appDir = NewPackage
    /\ versionFile = File(v2_1_0)
    /\ appDir = before.app

(***************************************************************************)
(* C22                                                                     *)
(***************************************************************************)

\* tar.x has resolved in the current run and nothing has touched the
\* directory since.
AfterExtraction ==
    /\ runs > 0
    /\ \/ pc \in {"record", "unlink"}
       \/ pc = "idle" /\ (result = "true" \/ failedAt \in {"record", "unlink"})

\* C22: after a successful extraction the application directory holds
\* exactly the files and directories of the package downloaded: nothing that
\* was in the directory before the run is left, whether a file the new
\* version dropped, a file of the user's, or other bytes at a path of the
\* package.
C22_ExactlyThePackage ==
    AfterExtraction =>
        /\ appDir.exists
        /\ appDir.nodes = PackageTree(StreamedVersion)

\* 2.1.0 extracted where 10.0.0 was, which had legacy.js.
C22_Witness ==
    /\ pc = "record"
    /\ StreamedVersion = v2_1_0
    /\ \E n \in before.app.nodes : n.path = <<"legacy.js">>
    /\ appDir.nodes = PackageTree(v2_1_0)

(***************************************************************************)
(* C23                                                                     *)
(***************************************************************************)

\* What tar.x with strip: 1 makes of a whole archive in an empty directory.
Unpacked(entries) == UNION {ExtractedNodes(e) : e \in entries}

\* The entries of an archive that have a one-segment path.
TopLevel(entries) == {e \in entries : Len(e.path) = 1}

\* C23: the archive the host packs of a version directory has one top-level
\* entry, the directory under the version's name, and unpacking it with one
\* leading component stripped gives exactly the relative paths, kinds and
\* contents of the version directory; that is what the target directory
\* holds when tar.x has resolved.
C23_PackThenUnpack ==
    scratch.present =>
        LET version == RemoveFirst(scratch.name, TarGz)
        IN  /\ TopLevel(scratch.entries) = {Node(<<version>>, "Directory", <<>>)}
            /\ \A e \in scratch.entries : e.path[1] = version
            /\ Unpacked(scratch.entries) = PackageTree(version)
            /\ (pc = "record") => appDir.nodes = Unpacked(scratch.entries)

\* The archive of 2.1.0 unpacked: lib/core.js is where the host has it.
C23_Witness ==
    /\ pc = "record"
    /\ scratch.name = v2_1_0 \o TarGz
    /\ Node(<<v2_1_0, "lib", "core.js">>, "File", v2_1_0) \in scratch.entries
    /\ Node(<<"lib", "core.js">>, "File", v2_1_0) \in appDir.nodes

(***************************************************************************)
(* C24                                                                     *)
(***************************************************************************)

\* The current update() has returned false against a host with no version
\* to offer.
FailedOnEmptyCatalog ==
    /\ runs > 0
    /\ HostCatalog = {}
    /\ pc = "idle"
    /\ result = "false"

\* The run has left everything as it found it.
NothingChanged ==
    /\ appDir = before.app
    /\ versionFile = before.record
    /\ runs = 1 => scratch = NoArchive

\* C24: the first request of an update() is for the catalog, the archive
\* being requested only after it; and a run against an empty catalog ends
\* as a failure of the resolving stage with nothing downloaded and the
\* application directory and the record unchanged.
C24_CatalogQueriedFirst ==
    /\ asked # <<>> => asked[1] = "versions"
    /\ FailedOnEmptyCatalog =>
           /\ StageOf(failedAt) = "resolving"
           /\ NothingChanged

(***************************************************************************)
(* C25                                                                     *)
(***************************************************************************)

\* The tar stream of connection s has raised an error after bytes of the
\* archive were sent.
ErroredAfterBytes(s) ==
    /\ streams[s].tar = "failed"
    /\ streams[s].read > 0

\* C25: when the archive stream has raised an error after response bytes
\* were sent, the response is not left open, is not completed as a normal end
\* of body, and carries no JSON error payload after the archive bytes: the
\* host has terminated it with an error.
C25_ErrorEndsResponse ==
    \A s \in 1..MaxStreams :
        ErroredAfterBytes(s) => streams[s].response \notin {"open", "ended", "error500"}

(***************************************************************************)
(* C26                                                                     *)
(***************************************************************************)

\* C26: the step in which the connection of a download closes leaves its
\* tar stream destroyed (or already failed) and touches no other download,
\* and from then on nothing is read for it.
C26_CloseDestroysStream ==
    [][ \A s \in 1..MaxStreams :
            /\ streams[s].response = "closed" => streams'[s] = streams[s]
            /\ (streams[s].response # "closed" /\ streams'[s].response = "closed") =>
                   /\ streams'[s].tar \in {"destroyed", "failed"}
                   /\ streams'[s].read = streams[s].read
                   /\ \A t \in 1..MaxStreams \ {s} : streams'[t] = streams[t]
      ]_vars

\* One download cut by its client after a chunk, its tar stream destroyed,
\* while another has been read further.
C26_Witness ==
    /\ streams[1].response = "closed"
    /\ streams[1].tar = "destroyed"
    /\ streams[1].read = 1
    /\ streams[2].response = "open"
    /\ streams[2].tar = "flowing"
    /\ streams[2].read > 1

(***************************************************************************)
(* C27                                                                     *)
(***************************************************************************)

\* C27: the step of update() that removes the archive from downloads/ is
\* taken after recordVersion has written the record of that run, and the
\* step by which update() returns true leaves no archive of the run there.
C27_ScratchRemovedLast ==
    [][ /\ (scratch.present /\ ~scratch'.present) =>
               /\ pc = "unlink"
               /\ versionFile = File(ActualVersion(reqVersion, tarPath))
        /\ (result # "true" /\ result' = "true") =>
               /\ ~scratch'.present
               /\ versionFile' = File(ActualVersion(reqVersion, tarPath))
      ]_vars

\* A run has returned true: the record is new and downloads/ holds no
\* archive.
C27_Witness ==
    /\ pc = "idle"
    /\ result = "true"
    /\ ~scratch.present
    /\ versionFile # before.record
    /\ versionFile = File(StreamedVersion)

(***************************************************************************)
(* C28                                                                     *)
(***************************************************************************)

\* update() has returned true for the very version the record named when
\* it was called.
ReappliedInstalled ==
    /\ pc = "idle"
    /\ result = "true"
    /\ before.record = File(reqVersion)

\* C28: an update(v) that succeeds with v already in the record has
\* requested and downloaded the archive all the same, and leaves the
\* application directory holding exactly the package the host streamed for
\* v (that of v when v is a catalog identifier), whatever had been changed
\* in it since the installation; the record is as it was.
C28_ReappliesInstalled ==
    ReappliedInstalled =>
        /\ asked = <<"updates">>
        /\ appDir = NewPackage
        /\ reqVersion \in HostCatalog => appDir = Dir(PackageTree(reqVersion))
        /\ versionFile = before.record

\* 1.0.0 recorded, main.js edited and local.cfg added since: update('1.0.0')
\* has put the package back.
C28_Witness ==
    /\ ReappliedInstalled
    /\ reqVersion = v1_0_0
    /\ before.app = Edited(Dir(PackageTree(v1_0_0)))
    /\ appDir = Dir(PackageTree(v1_0_0))
    /\ appDir # before.app

(***************************************************************************)
(* C29                                                                     *)
(***************************************************************************)

\* createTarStream was called for connection s with a path that is no
\* directory: the version directory went after the handler's existsSync.
PackedMissingDir(s) == streams[s].source.kind = "empty"

\* C29: the stream createTarStream returns for a path that is no directory
\* gives its consumer an error: it does not end normally, and the response
\* it is piped into is not completed as a successful archive of zero bytes.
C29_MissingDirIsError ==
    \A s \in 1..MaxStreams :
        PackedMissingDir(s) =>
            /\ streams[s].tar # "ended"
            /\ streams[s].response # "ended"

(***************************************************************************)
(* C30                                                                     *)
(***************************************************************************)

\* The handler got as far as resolving a path: the catalog was read, was not
\* empty, and the request matched an entry of it.
ReachedPathResolution ==
    /\ UpdatesHandled
    /\ resp.error \in {"none", "FolderNotFound", "InvalidVersionPath"}

\* C30: the version a /updates request takes to path resolution is an entry
\* of the catalog and of the digit-and-dot grammar, so the path resolved is
\* the child of the package root of that name, every directory streamed is
\* such a child, and no request is answered 403 'Invalid version path'.
C30_OnlyCatalogEntriesResolved ==
    /\ UpdatesHandled => resp.error # "InvalidVersionPath"
    /\ ReachedPathResolution =>
           /\ resp.version \in CatalogSet
           /\ InGrammar(resp.version)
           /\ ResolvePath(resp.version) = ChildPath(resp.version)
           /\ startsWith(ResolvePath(resp.version), BASE_DIR)
    /\ (UpdatesHandled /\ resp.stream.kind = "tar") =>
           resp.stream.dir = ChildPath(resp.version)

\* A request that is no catalog entry as written (other case, or whitespace)
\* and is streamed from the child directory of the entry it matched.
C30_Witness ==
    /\ ReachedPathResolution
    /\ resp.status = 200
    /\ resp.request.given
    /\ resp.request.text \notin CatalogSet
    /\ resp.stream = [kind |-> "tar", dir |-> ChildPath(resp.version)]

(***************************************************************************)
(* C31                                                                     *)
(***************************************************************************)

\* update() has returned false from its catch block, lines 199-202.
ReturnedFalse ==
    /\ pc = "idle"
    /\ runs > 0
    /\ result = "false"

\* C31: when update() returns false, the installed-version record holds the
\* value it had when update() was called, whichever step threw (the removal
\* of the scratch archive, which follows the write of the record, included).
C31_FalseKeepsRecord ==
    ReturnedFalse => versionFile = before.record

=============================================================================
